---- MODULE Spec2Model ----
(***************************************************************************)
(* SMS Mail Forwarder: the screens of the React Native client as one state *)
(* machine.  Each screen's useState hooks are the fields of one record     *)
(* variable, every handler is one action for its synchronous part and one  *)
(* action (Settle) for the continuation that runs after its awaits.  The   *)
(* backend and AsyncStorage are the environment: a call stays in `net'     *)
(* from the moment it is issued until its continuation has run.            *)
(***************************************************************************)
EXTENDS Integers, Sequences, FiniteSets, TLC

VARIABLES
    screen,          \* the screen on top of the navigation stack
    net,             \* awaited calls, in the order they were issued
    last,            \* what the latest handler step did: alerts shown, requests sent
    srvFilters,      \* backend: the stored filters
    storage,         \* AsyncStorage: key -> value
    homeScreen,      \* HomeScreen's hooks
    filtersScreen,   \* FiltersScreen's hooks
    emailScreen,     \* EmailConfigScreen's hooks
    logsScreen,      \* LogsScreen's hooks
    testScreen,      \* TestSMSScreen's hooks
    settingsScreen,  \* SettingsScreen's hooks
    issued           \* how many of the user's actions have sent a request so far

vars == <<screen, net, last, srvFilters, storage, homeScreen, filtersScreen,
          emailScreen, logsScreen, testScreen, settingsScreen, issued>>

-----------------------------------------------------------------------------
(* Bounds *)

\* calls that may be awaited at the same time: in the app as a whole, and
\* where overlapping calls are looked at
MaxInFlight == 1
MaxOverlap == 2
\* filters the backend can hold (filter ids are 1..MaxFilters)
MaxFilters == 1
\* actions of the user that send a request, in one run of the app
MaxCalls == 2

-----------------------------------------------------------------------------
(* Values *)

\* JSON null / a missing value
Null == "<null>"

\* The texts a user can type: empty, blank, and non-blank
Texts == {"", " ", "a"}

\* The same, and one with a space before it
PaddedTexts == Texts \cup {" a"}

\* String.prototype.trim on the texts of the model
Trim(s) == IF s = " " THEN "" ELSE IF s = " a" THEN "a" ELSE s

\* JavaScript truthiness of a string-or-null value
Truthy(s) == s # "" /\ s # Null

\* How a fetch can come back: it rejects, or it resolves with a 2xx or
\* non-2xx status and a body that response.json() can or cannot parse
Settled == {"rejected", "ok", "err", "ok_garbled", "err_garbled"}

IsOk(st) == st \in {"ok", "ok_garbled"}

HttpMethods == {"GET", "POST", "PUT", "DELETE"}

\* the body of a non-2xx response, and an unparsable one
ErrBody == [kind |-> "detail"]
Garbled == [kind |-> "garbled"]
NoBody == [kind |-> "none"]

Request(method, path, id, body) ==
    [method |-> method, path |-> path, id |-> id, body |-> body]

Pending == [st |-> "pending", data |-> NoBody]

\* One activation of an async handler, suspended at its await
Call(op, via, reqs) ==
    [op |-> op, via |-> via, reqs |-> reqs,
     resp |-> [k \in DOMAIN reqs |-> Pending],
     overtaken |-> FALSE]

\* What one handler step did.  phase: "call" (the synchronous part, up to the
\* first await), "settle" (the continuation), "ui" (a state update only).
Event(op, phase, outcome, alerts, sent) ==
    [op |-> op, phase |-> phase, outcome |-> outcome, alerts |-> alerts, sent |-> sent,
     data |-> NoBody, stale |-> FALSE]

\* A step that shows no alert and sends nothing
Quiet == Event("", "ui", "", <<>>, <<>>)

-----------------------------------------------------------------------------
(* FiltersScreen *)

FilterIds == 1..MaxFilters

\* filter_type values the modal offers
ModalTypes == {"all", "sender", "keyword"}

NoFilter == [id |-> 0, name |-> "", filter_type |-> "", filter_value |-> Null, enabled |-> FALSE]

EmptyForm == [name |-> "", filter_type |-> "all", filter_value |-> ""]

FiltersInit ==
    [filters |-> [kind |-> "list", items |-> {}],
     loading |-> TRUE,
     modalVisible |-> FALSE,
     editingFilter |-> NoFilter,
     formData |-> EmptyForm,
     confirm |-> NoFilter]

\* The list renders: `filters.map' needs an array
FiltersRendered == filtersScreen.filters.kind = "list"

\* The filters that have a FilterCard
Cards == IF FiltersRendered THEN filtersScreen.filters.items ELSE {}

\* The cards are on screen and can be pressed
CardsShown ==
    /\ screen = "filters"
    /\ FiltersRendered
    /\ ~filtersScreen.loading
    /\ ~filtersScreen.modalVisible
    /\ filtersScreen.confirm = NoFilter

LoadFiltersRequest == Request("GET", "/api/filters", 0, NoBody)

\* loadFilters up to its await
LoadFiltersCall == Call("loadFilters", "", <<LoadFiltersRequest>>)

\* openEditModal's form: the filter's own name and type, its value or ''
EditForm(filter) ==
    [name |-> filter.name,
     filter_type |-> filter.filter_type,
     filter_value |-> IF Truthy(filter.filter_value) THEN filter.filter_value ELSE ""]

\* saveFilter's checks without the trim
SaveFilterInvalid_untrimmed(formData) ==
    IF formData.name = "" THEN "name"
    ELSE IF formData.filter_type # "all" /\ formData.filter_value = "" THEN "value"
    ELSE ""

\* saveFilter's two checks: "name", "value", or "" when the form passes
SaveFilterInvalid(formData) ==
    IF Trim(formData.name) = "" THEN "name"
    ELSE IF formData.filter_type # "all" /\ Trim(formData.filter_value) = "" THEN "value"
    ELSE ""

\* filterData that keeps the flag of the filter being edited
FilterData_kept(formData) ==
    [name |-> formData.name,
     filter_type |-> formData.filter_type,
     filter_value |-> IF formData.filter_type = "all" THEN Null ELSE formData.filter_value,
     enabled |-> IF filtersScreen.editingFilter = NoFilter THEN TRUE
                 ELSE filtersScreen.editingFilter.enabled]

\* saveFilter's filterData
FilterData(formData) ==
    [name |-> formData.name,
     filter_type |-> formData.filter_type,
     filter_value |-> IF formData.filter_type = "all" THEN Null ELSE formData.filter_value,
     enabled |-> TRUE]

\* saveFilter's fetch: PUT to the edited filter, or POST
SaveFilterRequest(editingFilter, formData) ==
    IF editingFilter # NoFilter
    THEN Request("PUT", "/api/filters/:id", editingFilter.id, FilterData(formData))
    ELSE Request("POST", "/api/filters", 0, FilterData(formData))

\* A toggle that negates the flag the backend holds
ToggleRequest_server(filter) ==
    Request("PUT", "/api/filters/:id", filter.id,
            [enabled |-> IF \E g \in srvFilters : g.id = filter.id
                         THEN \A g \in srvFilters : g.id = filter.id => ~g.enabled
                         ELSE ~filter.enabled])

\* toggleFilter's fetch
ToggleRequest(filter) ==
    Request("PUT", "/api/filters/:id", filter.id, [enabled |-> ~filter.enabled])

\* A DELETE on the collection
DeleteRequest_collection(filter) == Request("DELETE", "/api/filters", filter.id, NoBody)

\* deleteFilter's fetch
DeleteRequest(filter) == Request("DELETE", "/api/filters/:id", filter.id, NoBody)

OthersThanFilters ==
    <<screen, srvFilters, storage, homeScreen, emailScreen, logsScreen, testScreen,
      settingsScreen>>

openAddModal ==
    /\ screen = "filters"
    /\ FiltersRendered
    /\ ~filtersScreen.modalVisible
    /\ filtersScreen.confirm = NoFilter
    /\ filtersScreen' = [filtersScreen EXCEPT !.editingFilter = NoFilter,
                                              !.formData = EmptyForm,
                                              !.modalVisible = TRUE]
    /\ last' = Quiet
    /\ UNCHANGED <<net, OthersThanFilters>>
    /\ UNCHANGED issued

openEditModal(filter) ==
    /\ CardsShown
    /\ filter \in Cards
    /\ filtersScreen' = [filtersScreen EXCEPT !.editingFilter = filter,
                                              !.formData = EditForm(filter),
                                              !.modalVisible = TRUE]
    /\ last' = Quiet
    /\ UNCHANGED <<net, OthersThanFilters>>
    /\ UNCHANGED issued

\* The modal is on screen
ModalShown == screen = "filters" /\ FiltersRendered /\ filtersScreen.modalVisible

\* onChangeText of the name input
setFilterName(text) ==
    /\ ModalShown
    /\ filtersScreen' = [filtersScreen EXCEPT !.formData.name = text]
    /\ last' = Quiet
    /\ UNCHANGED <<net, OthersThanFilters>>
    /\ UNCHANGED issued

\* FilterTypeButton's onPress
setFilterType(type) ==
    /\ ModalShown
    /\ filtersScreen' = [filtersScreen EXCEPT !.formData.filter_type = type]
    /\ last' = Quiet
    /\ UNCHANGED <<net, OthersThanFilters>>
    /\ UNCHANGED issued

\* onChangeText of the value input, rendered unless the type is 'all'
setFilterValue(text) ==
    /\ ModalShown
    /\ filtersScreen.formData.filter_type # "all"
    /\ filtersScreen' = [filtersScreen EXCEPT !.formData.filter_value = text]
    /\ last' = Quiet
    /\ UNCHANGED <<net, OthersThanFilters>>
    /\ UNCHANGED issued

\* The close button, Cancel, and onRequestClose
closeModal ==
    /\ ModalShown
    /\ filtersScreen' = [filtersScreen EXCEPT !.modalVisible = FALSE]
    /\ last' = Quiet
    /\ UNCHANGED <<net, OthersThanFilters>>
    /\ UNCHANGED issued

\* saveFilter that sends nothing while the same request is awaited
saveFilter_once(limit) ==
    /\ ModalShown
    /\ Len(net) < limit
    /\ issued < MaxCalls
    /\ LET invalid == SaveFilterInvalid(filtersScreen.formData)
           req == SaveFilterRequest(filtersScreen.editingFilter, filtersScreen.formData)
       IN IF invalid # ""
          THEN /\ last' = Event("saveFilter", "call", "invalid", <<"Validation Error">>, <<>>)
               /\ UNCHANGED <<net, issued>>
          ELSE /\ \A i \in DOMAIN net : net[i].reqs # <<req>>
               /\ issued' = issued + 1
               /\ net' = Append(net, Call("saveFilter", "user", <<req>>))
               /\ last' = Event("saveFilter", "call", "issued", <<>>, <<req>>)
    /\ UNCHANGED <<filtersScreen, OthersThanFilters>>

\* saveFilter up to its await
saveFilter(limit) ==
    /\ ModalShown
    /\ Len(net) < limit
    /\ issued < MaxCalls
    /\ LET invalid == SaveFilterInvalid(filtersScreen.formData)
           req == SaveFilterRequest(filtersScreen.editingFilter, filtersScreen.formData)
       IN IF invalid # ""
          THEN /\ last' = Event("saveFilter", "call", "invalid", <<"Validation Error">>, <<>>)
               /\ UNCHANGED <<net, issued>>
          ELSE /\ issued' = issued + 1
               /\ net' = Append(net, Call("saveFilter", "user", <<req>>))
               /\ last' = Event("saveFilter", "call", "issued", <<>>, <<req>>)
    /\ UNCHANGED <<filtersScreen, OthersThanFilters>>

\* toggleFilter up to its await
toggleFilter(filter, limit) ==
    /\ CardsShown
    /\ filter \in Cards
    /\ Len(net) < limit
    /\ issued < MaxCalls
    /\ issued' = issued + 1
    /\ net' = Append(net, Call("toggleFilter", "user", <<ToggleRequest(filter)>>))
    /\ last' = Event("toggleFilter", "call", "issued", <<>>, <<ToggleRequest(filter)>>)
    /\ UNCHANGED <<filtersScreen, OthersThanFilters>>

\* deleteFilter: the confirmation dialog opens, holding the filter
deleteFilter(filter) ==
    /\ CardsShown
    /\ filter \in Cards
    /\ filtersScreen' = [filtersScreen EXCEPT !.confirm = filter]
    /\ last' = Event("deleteFilter", "ui", "", <<"Delete Filter">>, <<>>)
    /\ UNCHANGED <<net, OthersThanFilters>>
    /\ UNCHANGED issued

\* The dialog's Cancel button
cancelDelete ==
    /\ screen = "filters"
    /\ filtersScreen.confirm # NoFilter
    /\ filtersScreen' = [filtersScreen EXCEPT !.confirm = NoFilter]
    /\ last' = Quiet
    /\ UNCHANGED <<net, OthersThanFilters>>
    /\ UNCHANGED issued

\* The dialog's Delete button: its onPress up to the await
confirmDelete(limit) ==
    /\ screen = "filters"
    /\ filtersScreen.confirm # NoFilter
    /\ Len(net) < limit
    /\ issued < MaxCalls
    /\ LET req == DeleteRequest(filtersScreen.confirm)
       IN /\ issued' = issued + 1
          /\ net' = Append(net, Call("deleteFilter", "user", <<req>>))
          /\ last' = Event("deleteFilter", "call", "issued", <<>>, <<req>>)
    /\ filtersScreen' = [filtersScreen EXCEPT !.confirm = NoFilter]
    /\ UNCHANGED OthersThanFilters

\* response.json() of a settled response succeeds
Parsable(st) == st \in {"ok", "err"}

\* How the fetch of one request can come back to the client: any fetch can
\* reject (the request or its answer is lost); one the backend has accepted
\* resolves with a 2xx status, any other with a non-2xx status; the body
\* parses or not.  An AsyncStorage promise resolves once the store has acted
\* and rejects otherwise
Arrivals(req, resp) ==
    IF req.method \in HttpMethods
    THEN IF resp.st = "done" THEN {"rejected", "ok", "ok_garbled"}
         ELSE {"rejected", "err", "err_garbled"}
    ELSE IF resp.st = "done" THEN {"ok"} ELSE {"rejected"}

\* The ways the awaits of a call can end: one arrival per fetch.  Promise.all
\* rejects on the first rejection and resolves once every fetch has
Endings(call) ==
    {sts \in [DOMAIN call.reqs -> Settled] :
        \A k \in DOMAIN call.reqs : sts[k] \in Arrivals(call.reqs[k], call.resp[k])}

\* The worst of a call's arrivals: what the event of its continuation reports
Outcome(sts) ==
    LET got == {sts[k] : k \in DOMAIN sts}
    IN IF "rejected" \in got THEN "rejected"
       ELSE IF "err_garbled" \in got THEN "err_garbled"
       ELSE IF "ok_garbled" \in got THEN "ok_garbled"
       ELSE IF "err" \in got THEN "err"
       ELSE "ok"

\* What the continuation sees of fetch k
Seen(call, sts, k) ==
    [st |-> sts[k],
     data |-> IF sts[k] = "ok" THEN call.resp[k].data
              ELSE IF sts[k] = "err" THEN ErrBody
              ELSE IF sts[k] = "rejected" THEN NoBody ELSE Garbled]

\* net without call i; with `applied', the calls of the same handler issued
\* before it are marked as overtaken by a later one
Retire(calls, i, applied) ==
    [j \in 1..(Len(calls) - 1) |->
        IF j < i
        THEN [calls[j] EXCEPT !.overtaken = @ \/ (applied /\ calls[j].op = calls[i].op)]
        ELSE calls[j + 1]]

\* loadFilters after its await: setFilters(data) whatever the status, and
\* setLoading(false) in `finally'
LoadFiltersApply(s, r) ==
    IF Parsable(r.st)
    THEN [s EXCEPT !.filters = r.data, !.loading = FALSE]
    ELSE [s EXCEPT !.loading = FALSE]

\* loadFilters' catch
LoadFiltersAlerts(r) == IF Parsable(r.st) THEN <<>> ELSE <<"Error">>

\* loadFilters that drops the answer of a call a later one has overtaken
settleLoadFilters_latest(i, sts) ==
    /\ net[i].op = "loadFilters"
    /\ sts \in Endings(net[i])
    /\ LET r == Seen(net[i], sts, 1)
       IN /\ filtersScreen' = IF net[i].overtaken
                              THEN [filtersScreen EXCEPT !.loading = FALSE]
                              ELSE LoadFiltersApply(filtersScreen, r)
          /\ net' = Retire(net, i, Parsable(r.st))
          /\ last' = [Event("loadFilters", "settle", r.st, LoadFiltersAlerts(r), <<>>)
                         EXCEPT !.data = r.data, !.stale = net[i].overtaken]
    /\ UNCHANGED OthersThanFilters
    /\ UNCHANGED issued

settleLoadFilters(i, sts) ==
    /\ net[i].op = "loadFilters"
    /\ sts \in Endings(net[i])
    /\ LET r == Seen(net[i], sts, 1)
       IN /\ filtersScreen' = LoadFiltersApply(filtersScreen, r)
          /\ net' = Retire(net, i, Parsable(r.st))
          /\ last' = [Event("loadFilters", "settle", r.st, LoadFiltersAlerts(r), <<>>)
                         EXCEPT !.data = r.data, !.stale = net[i].overtaken]
    /\ UNCHANGED OthersThanFilters
    /\ UNCHANGED issued

\* A success that needs a body that parses
SaveFilterSucceeded_parsed(r) == r.st = "ok"

\* saveFilter after its await: `response.ok' closes the modal and reloads;
\* anything else ends in the catch
SaveFilterSucceeded(r) == IsOk(r.st)

\* saveFilter with a catch that sends the request once more
settleSaveFilter_retry(i, sts) ==
    /\ net[i].op = "saveFilter"
    /\ sts \in Endings(net[i])
    /\ LET r == Seen(net[i], sts, 1)
       IN IF SaveFilterSucceeded(r)
          THEN /\ filtersScreen' = [filtersScreen EXCEPT !.modalVisible = FALSE]
               /\ net' = Append(Retire(net, i, FALSE), LoadFiltersCall)
               /\ last' = Event("saveFilter", "settle", r.st, <<"Success">>,
                                <<LoadFiltersRequest>>)
          ELSE /\ net' = Append(Retire(net, i, FALSE),
                                Call("saveFilter", "retry", net[i].reqs))
               /\ last' = Event("saveFilter", "settle", r.st, <<"Error">>, net[i].reqs)
               /\ UNCHANGED filtersScreen
    /\ UNCHANGED OthersThanFilters
    /\ UNCHANGED issued

settleSaveFilter(i, sts) ==
    /\ net[i].op = "saveFilter"
    /\ sts \in Endings(net[i])
    /\ LET r == Seen(net[i], sts, 1)
       IN IF SaveFilterSucceeded(r)
          THEN /\ filtersScreen' = [filtersScreen EXCEPT !.modalVisible = FALSE]
               /\ net' = Append(Retire(net, i, FALSE), LoadFiltersCall)
               /\ last' = Event("saveFilter", "settle", r.st, <<"Success">>,
                                <<LoadFiltersRequest>>)
          ELSE /\ net' = Retire(net, i, FALSE)
               /\ last' = Event("saveFilter", "settle", r.st, <<"Error">>, <<>>)
               /\ UNCHANGED filtersScreen
    /\ UNCHANGED OthersThanFilters
    /\ UNCHANGED issued

\* toggleFilter after its await
settleToggleFilter(i, sts) ==
    /\ net[i].op = "toggleFilter"
    /\ sts \in Endings(net[i])
    /\ LET r == Seen(net[i], sts, 1)
       IN IF IsOk(r.st)
          THEN /\ net' = Append(Retire(net, i, FALSE), LoadFiltersCall)
               /\ last' = Event("toggleFilter", "settle", r.st, <<>>, <<LoadFiltersRequest>>)
          ELSE /\ net' = Retire(net, i, FALSE)
               /\ last' = Event("toggleFilter", "settle", r.st, <<"Error">>, <<>>)
    /\ UNCHANGED <<filtersScreen, OthersThanFilters>>
    /\ UNCHANGED issued

\* The Delete button's onPress that reloads the list twice
settleDeleteFilter_twice(i, sts) ==
    /\ net[i].op = "deleteFilter"
    /\ sts \in Endings(net[i])
    /\ LET r == Seen(net[i], sts, 1)
       IN IF IsOk(r.st)
          THEN /\ net' = Retire(net, i, FALSE) \o <<LoadFiltersCall, LoadFiltersCall>>
               /\ last' = Event("deleteFilter", "settle", r.st, <<"Success">>,
                                <<LoadFiltersRequest, LoadFiltersRequest>>)
          ELSE /\ net' = Retire(net, i, FALSE)
               /\ last' = Event("deleteFilter", "settle", r.st, <<"Error">>, <<>>)
    /\ UNCHANGED <<filtersScreen, OthersThanFilters>>
    /\ UNCHANGED issued

\* The Delete button's onPress after its await
settleDeleteFilter(i, sts) ==
    /\ net[i].op = "deleteFilter"
    /\ sts \in Endings(net[i])
    /\ LET r == Seen(net[i], sts, 1)
       IN IF IsOk(r.st)
          THEN /\ net' = Append(Retire(net, i, FALSE), LoadFiltersCall)
               /\ last' = Event("deleteFilter", "settle", r.st, <<"Success">>,
                                <<LoadFiltersRequest>>)
          ELSE /\ net' = Retire(net, i, FALSE)
               /\ last' = Event("deleteFilter", "settle", r.st, <<"Error">>, <<>>)
    /\ UNCHANGED <<filtersScreen, OthersThanFilters>>
    /\ UNCHANGED issued

-----------------------------------------------------------------------------
(* EmailConfigScreen *)

Tabs == {"smtp", "emergent", "device"}

DefaultConfig ==
    [email_type |-> "smtp", smtp_server |-> "", smtp_port |-> 587, smtp_username |-> "",
     smtp_password |-> "", use_tls |-> TRUE, recipient_email |-> "",
     sender_name |-> "SMS Forwarder"]

EmailInit ==
    [activeTab |-> "smtp", config |-> DefaultConfig, loading |-> FALSE,
     testLoading |-> FALSE]

LoadEmailConfigRequest == Request("GET", "/api/email/config", 0, NoBody)

\* loadEmailConfig's test of the parsed body
IsConfigured(data) ==
    /\ data.kind = "config"
    /\ data.status = "configured"
    /\ "config" \in DOMAIN data

\* setConfig with the backend's record as it came
LoadedConfig_verbatim(data) == data.config

\* loadEmailConfig's setConfig: the backend's record, the password emptied
LoadedConfig(data) == [data.config EXCEPT !.smtp_password = ""]

\* loadEmailConfig's setActiveTab
LoadedTab(data) ==
    IF Truthy(data.config.email_type) THEN data.config.email_type ELSE "smtp"

\* saveEmailConfig's check of the recipient alone
SaveEmailInvalid_recipient(config, activeTab) ==
    IF ~Truthy(config.recipient_email) THEN "recipient" ELSE ""

\* saveEmailConfig's two checks: "recipient", "smtp", or "" when the form passes
SaveEmailInvalid(config, activeTab) ==
    IF ~Truthy(config.recipient_email) THEN "recipient"
    ELSE IF /\ activeTab = "smtp"
            /\ \/ ~Truthy(config.smtp_server)
               \/ ~Truthy(config.smtp_username)
               \/ ~Truthy(config.smtp_password)
    THEN "smtp"
    ELSE ""

\* configToSave without the tab
ConfigToSave_asis(config, activeTab) == config

\* saveEmailConfig's configToSave
ConfigToSave(config, activeTab) == [config EXCEPT !.email_type = activeTab]

SaveEmailRequest(config, activeTab) ==
    Request("POST", "/api/email/config", 0, ConfigToSave(config, activeTab))

\* testEmailConfig's fetch
TestEmailRequest(config) ==
    Request("POST", "/api/email/test", 0,
            [recipient_email |-> config.recipient_email, test_message |-> "test"])

OthersThanEmail ==
    <<screen, srvFilters, storage, homeScreen, filtersScreen, logsScreen, testScreen,
      settingsScreen>>

\* The inputs shown on every tab, and those of the SMTP tab
CommonFields == {"recipient_email"}
SmtpFields == {"smtp_server", "smtp_username", "smtp_password", "sender_name"}

\* TabButton's onPress
setActiveTab(id) ==
    /\ screen = "email"
    /\ emailScreen' = [emailScreen EXCEPT !.activeTab = id]
    /\ last' = Quiet
    /\ UNCHANGED <<net, OthersThanEmail>>
    /\ UNCHANGED issued

\* onChangeText of a text input
setConfigText(field, text) ==
    /\ screen = "email"
    /\ field \in CommonFields \/ (field \in SmtpFields /\ emailScreen.activeTab = "smtp")
    /\ emailScreen' = [emailScreen EXCEPT !.config[field] = text]
    /\ last' = Quiet
    /\ UNCHANGED <<net, OthersThanEmail>>
    /\ UNCHANGED issued

\* parseInt on the texts a port can be typed as; NaN, which is as falsy as 0,
\* is 0 here
PortTexts == {"25", "0", "a"}
ParseInt(text) == IF text = "25" THEN 25 ELSE 0

\* onChangeText of the port input: `parseInt(text) || 587'
setSmtpPort(text) ==
    /\ screen = "email"
    /\ emailScreen.activeTab = "smtp"
    /\ emailScreen' = [emailScreen EXCEPT
                          !.config.smtp_port = IF ParseInt(text) = 0 THEN 587
                                               ELSE ParseInt(text)]
    /\ last' = Quiet
    /\ UNCHANGED <<net, OthersThanEmail>>
    /\ UNCHANGED issued

\* The TLS checkbox
toggleTls ==
    /\ screen = "email"
    /\ emailScreen.activeTab = "smtp"
    /\ emailScreen' = [emailScreen EXCEPT !.config.use_tls = ~@]
    /\ last' = Quiet
    /\ UNCHANGED <<net, OthersThanEmail>>
    /\ UNCHANGED issued

\* getProviderPresets: the three providers differ in the server name only
getProviderPresets(provider) ==
    /\ screen = "email"
    /\ emailScreen.activeTab = "smtp"
    /\ emailScreen' = [emailScreen EXCEPT !.config.smtp_server = provider,
                                          !.config.smtp_port = 587,
                                          !.config.use_tls = TRUE]
    /\ last' = Event("getProviderPresets", "ui", "", <<"Preset Applied">>, <<>>)
    /\ UNCHANGED <<net, OthersThanEmail>>
    /\ UNCHANGED issued

\* saveEmailConfig up to its await; the button is disabled while `loading'
saveEmailConfig(limit) ==
    /\ screen = "email"
    /\ ~emailScreen.loading
    /\ Len(net) < limit
    /\ issued < MaxCalls
    /\ LET invalid == SaveEmailInvalid(emailScreen.config, emailScreen.activeTab)
           req == SaveEmailRequest(emailScreen.config, emailScreen.activeTab)
       IN IF invalid # ""
          THEN /\ last' = Event("saveEmailConfig", "call", "invalid",
                                <<"Validation Error">>, <<>>)
               /\ UNCHANGED <<net, issued, emailScreen>>
          ELSE /\ emailScreen' = [emailScreen EXCEPT !.loading = TRUE]
               /\ issued' = issued + 1
               /\ net' = Append(net, Call("saveEmailConfig", "user", <<req>>))
               /\ last' = Event("saveEmailConfig", "call", "issued", <<>>, <<req>>)
    /\ UNCHANGED OthersThanEmail

\* testEmailConfig up to its await; the button is disabled while `testLoading'
testEmailConfig(limit) ==
    /\ screen = "email"
    /\ ~emailScreen.testLoading
    /\ Len(net) < limit
    /\ issued < MaxCalls
    /\ LET req == TestEmailRequest(emailScreen.config)
       IN IF ~Truthy(emailScreen.config.recipient_email)
          THEN /\ last' = Event("testEmailConfig", "call", "invalid",
                                <<"Validation Error">>, <<>>)
               /\ UNCHANGED <<net, issued, emailScreen>>
          ELSE /\ emailScreen' = [emailScreen EXCEPT !.testLoading = TRUE]
               /\ issued' = issued + 1
               /\ net' = Append(net, Call("testEmailConfig", "user", <<req>>))
               /\ last' = Event("testEmailConfig", "call", "issued", <<>>, <<req>>)
    /\ UNCHANGED OthersThanEmail

\* loadEmailConfig after its awaits: its catch only logs to the console
LoadEmailConfigApply(s, r) ==
    IF Parsable(r.st) /\ IsConfigured(r.data)
    THEN [s EXCEPT !.config = LoadedConfig(r.data), !.activeTab = LoadedTab(r.data)]
    ELSE s

LoadEmailConfigAlerts(r) == <<>>

settleLoadEmailConfig(i, sts) ==
    /\ net[i].op = "loadEmailConfig"
    /\ sts \in Endings(net[i])
    /\ LET r == Seen(net[i], sts, 1)
       IN /\ emailScreen' = LoadEmailConfigApply(emailScreen, r)
          /\ last' = [Event("loadEmailConfig", "settle", r.st, LoadEmailConfigAlerts(r),
                            <<>>) EXCEPT !.data = r.data]
    /\ net' = Retire(net, i, FALSE)
    /\ UNCHANGED OthersThanEmail
    /\ UNCHANGED issued

\* saveEmailConfig with a catch that only logs
SaveEmailAlerts_logged(r) == IF r.st = "ok" THEN <<"Success">> ELSE <<>>

\* saveEmailConfig after its awaits: the body is parsed before `response.ok'
\* is looked at
SaveEmailAlerts(r) == IF r.st = "ok" THEN <<"Success">> ELSE <<"Error">>

\* saveEmailConfig that clears `loading' after a success only
settleSaveEmailConfig_stuck(i, sts) ==
    /\ net[i].op = "saveEmailConfig"
    /\ sts \in Endings(net[i])
    /\ LET r == Seen(net[i], sts, 1)
       IN /\ last' = Event("saveEmailConfig", "settle", r.st, SaveEmailAlerts(r), <<>>)
          /\ emailScreen' = IF r.st = "ok" THEN [emailScreen EXCEPT !.loading = FALSE]
                            ELSE emailScreen
    /\ net' = Retire(net, i, FALSE)
    /\ UNCHANGED OthersThanEmail
    /\ UNCHANGED issued

settleSaveEmailConfig(i, sts) ==
    /\ net[i].op = "saveEmailConfig"
    /\ sts \in Endings(net[i])
    /\ LET r == Seen(net[i], sts, 1)
       IN last' = Event("saveEmailConfig", "settle", r.st, SaveEmailAlerts(r), <<>>)
    /\ emailScreen' = [emailScreen EXCEPT !.loading = FALSE]
    /\ net' = Retire(net, i, FALSE)
    /\ UNCHANGED OthersThanEmail
    /\ UNCHANGED issued

\* testEmailConfig after its awaits: only the body's status decides
TestEmailAlerts(r) ==
    IF ~Parsable(r.st) THEN <<"Test Error">>
    ELSE IF r.data.kind = "result" /\ r.data.status = "sent" THEN <<"Test Successful">>
    ELSE <<"Test Failed">>

\* The result bodies of /api/email/test and /api/sms/forward
ResultStatuses == {"sent", "failed", "filtered", "no_config"}
Results == {[kind |-> "result", status |-> status] : status \in ResultStatuses}

\* A non-2xx answer to the test carries an error body or a result body
settleTestEmailConfig(i, sts) ==
    /\ net[i].op = "testEmailConfig"
    /\ sts \in Endings(net[i])
    /\ \E body \in Results \cup {ErrBody} :
          LET seen == Seen(net[i], sts, 1)
              r == IF seen.st = "err" THEN [seen EXCEPT !.data = body] ELSE seen
          IN last' = [Event("testEmailConfig", "settle", r.st, TestEmailAlerts(r), <<>>)
                         EXCEPT !.data = r.data]
    /\ emailScreen' = [emailScreen EXCEPT !.testLoading = FALSE]
    /\ net' = Retire(net, i, FALSE)
    /\ UNCHANGED OthersThanEmail
    /\ UNCHANGED issued

-----------------------------------------------------------------------------
(* LogsScreen *)

NullBody == [kind |-> "null"]

LogsInit ==
    [logs |-> [kind |-> "list", items |-> {}],
     stats |-> NullBody,
     loading |-> TRUE,
     refreshing |-> FALSE,
     filterStatus |-> "all"]

\* The screen renders: `logs.filter' needs an array
LogsRendered == logsScreen.logs.kind = "list"

MessagesRequest == Request("GET", "/api/sms/messages", 0, NoBody)
StatsRequest == Request("GET", "/api/sms/stats", 0, NoBody)

\* loadData up to its await: Promise.all of the two fetches
LoadDataCall(via) == Call("loadData", via, <<MessagesRequest, StatsRequest>>)

\* loadData reaches its catch: a fetch rejected or a body did not parse
LoadDataFailed(logsR, statsR) == ~Parsable(logsR.st) \/ ~Parsable(statsR.st)

\* loadData after its awaits: setLogs and setStats with the parsed bodies,
\* whatever the statuses; both flags are cleared in `finally'
LoadDataApply(s, logsR, statsR) ==
    IF LoadDataFailed(logsR, statsR)
    THEN [s EXCEPT !.loading = FALSE, !.refreshing = FALSE]
    ELSE [s EXCEPT !.logs = logsR.data, !.stats = statsR.data,
                   !.loading = FALSE, !.refreshing = FALSE]

LoadDataAlerts(logsR, statsR) ==
    IF LoadDataFailed(logsR, statsR) THEN <<"Error">> ELSE <<>>

OthersThanLogs ==
    <<screen, srvFilters, storage, homeScreen, filtersScreen, emailScreen, testScreen,
      settingsScreen>>

\* onRefresh; the RefreshControl takes no pull while `refreshing'
onRefresh(limit) ==
    /\ screen = "logs"
    /\ LogsRendered
    /\ ~logsScreen.refreshing
    /\ Len(net) < limit
    /\ issued < MaxCalls
    /\ logsScreen' = [logsScreen EXCEPT !.refreshing = TRUE]
    /\ issued' = issued + 1
    /\ net' = Append(net, LoadDataCall("refresh"))
    /\ last' = Event("loadData", "call", "issued", <<>>, <<MessagesRequest, StatsRequest>>)
    /\ UNCHANGED OthersThanLogs

\* FilterButton's onPress
setFilterStatus(status) ==
    /\ screen = "logs"
    /\ LogsRendered
    /\ logsScreen' = [logsScreen EXCEPT !.filterStatus = status]
    /\ last' = Quiet
    /\ UNCHANGED <<net, OthersThanLogs>>
    /\ UNCHANGED issued

\* clearLogs: a dialog whose Clear button shows another; nothing is sent
clearLogs ==
    /\ screen = "logs"
    /\ LogsRendered
    /\ last' = Event("clearLogs", "ui", "", <<"Clear Logs", "Info">>, <<>>)
    /\ UNCHANGED <<net, logsScreen, OthersThanLogs>>
    /\ UNCHANGED issued

settleLoadData(i, sts) ==
    /\ net[i].op = "loadData"
    /\ sts \in Endings(net[i])
    /\ LET logsR == Seen(net[i], sts, 1)
           statsR == Seen(net[i], sts, 2)
       IN /\ logsScreen' = LoadDataApply(logsScreen, logsR, statsR)
          /\ net' = Retire(net, i, ~LoadDataFailed(logsR, statsR))
          /\ last' = [Event("loadData", "settle", Outcome(sts),
                            LoadDataAlerts(logsR, statsR), <<>>)
                         EXCEPT !.data = logsR.data, !.stale = net[i].overtaken]
    /\ UNCHANGED OthersThanLogs
    /\ UNCHANGED issued

\* getFilteredLogs
getFilteredLogs(logs, filterStatus) ==
    CASE filterStatus = "forwarded" -> {log \in logs : log.forwarded}
      [] filterStatus = "failed" -> {log \in logs : log.email_status = "failed"}
      [] OTHER -> logs

\* A label chosen by the status alone
getStatusLabel_status(log) ==
    IF log.email_status = "sent" THEN "Forwarded"
    ELSE IF log.email_status = "failed" THEN "Failed"
    ELSE IF log.email_status = "filtered" THEN "Filtered"
    ELSE IF log.email_status = "no_config" THEN "No Config"
    ELSE "Pending"

\* getStatusLabel
getStatusLabel(log) ==
    IF log.forwarded THEN "Forwarded"
    ELSE IF log.email_status = "failed" THEN "Failed"
    ELSE IF log.email_status = "filtered" THEN "Filtered"
    ELSE IF log.email_status = "no_config" THEN "No Config"
    ELSE "Pending"

\* getStatusIcon: the icon's name
getStatusIcon(log) ==
    IF log.forwarded THEN "checkmark-circle"
    ELSE IF log.email_status = "failed" THEN "close-circle"
    ELSE IF log.email_status = "filtered" THEN "filter-circle"
    ELSE IF log.email_status = "no_config" THEN "settings"
    ELSE "time"

\* The LogCards on screen: each entry with its icon and label
LogCards ==
    IF screen = "logs" /\ LogsRendered /\ ~logsScreen.loading
    THEN {[log |-> log, icon |-> getStatusIcon(log), label |-> getStatusLabel(log)] :
            log \in getFilteredLogs(logsScreen.logs.items, logsScreen.filterStatus)}
    ELSE {}

-----------------------------------------------------------------------------
(* TestSMSScreen *)

TestInit ==
    [testData |-> [sender |-> "+1234567890", content |-> "test"], loading |-> FALSE]

\* The presets of the screen, by sender
presets ==
    {[sender |-> "BANK", content |-> "alert"],
     [sender |-> "+1555123456", content |-> "code"],
     [sender |-> "DELIVERY", content |-> "package"],
     [sender |-> "EMERGENCY", content |-> "urgent"]}

\* sendTestSMS' check
SendTestInvalid(testData) == Trim(testData.sender) = "" \/ Trim(testData.content) = ""

\* sendTestSMS' fetch with the texts trimmed
SendTestRequest_trimmed(testData) ==
    Request("POST", "/api/sms/forward", 0,
            [sender |-> Trim(testData.sender), content |-> Trim(testData.content),
             timestamp |-> "now"])

\* sendTestSMS' fetch; the timestamp is the time of the press
SendTestRequest(testData) ==
    Request("POST", "/api/sms/forward", 0,
            [sender |-> testData.sender, content |-> testData.content,
             timestamp |-> "now"])

OthersThanTest ==
    <<screen, srvFilters, storage, homeScreen, filtersScreen, emailScreen, logsScreen,
      settingsScreen>>

usePreset(preset) ==
    /\ screen = "test"
    /\ testScreen' = [testScreen EXCEPT !.testData = preset]
    /\ last' = Quiet
    /\ UNCHANGED <<net, OthersThanTest>>
    /\ UNCHANGED issued

\* onChangeText of the sender and content inputs
setTestText(field, text) ==
    /\ screen = "test"
    /\ testScreen' = [testScreen EXCEPT !.testData[field] = text]
    /\ last' = Quiet
    /\ UNCHANGED <<net, OthersThanTest>>
    /\ UNCHANGED issued

\* sendTestSMS up to its await; the button is disabled while `loading'
sendTestSMS(limit) ==
    /\ screen = "test"
    /\ ~testScreen.loading
    /\ Len(net) < limit
    /\ issued < MaxCalls
    /\ LET req == SendTestRequest(testScreen.testData)
       IN IF SendTestInvalid(testScreen.testData)
          THEN /\ last' = Event("sendTestSMS", "call", "invalid", <<"Validation Error">>,
                                <<>>)
               /\ UNCHANGED <<net, issued, testScreen>>
          ELSE /\ testScreen' = [testScreen EXCEPT !.loading = TRUE]
               /\ issued' = issued + 1
               /\ net' = Append(net, Call("sendTestSMS", "user", <<req>>))
               /\ last' = Event("sendTestSMS", "call", "issued", <<>>, <<req>>)
    /\ UNCHANGED OthersThanTest

\* sendTestSMS that reports a result only for a message that was sent
SendTestAlerts_sentOnly(r) ==
    IF r.st = "ok" /\ r.data.status = "sent" THEN <<"Test Result">> ELSE <<"Error">>

\* sendTestSMS after its awaits: the body is parsed, then `response.ok' decides
SendTestAlerts(r) == IF r.st = "ok" THEN <<"Test Result">> ELSE <<"Error">>

settleSendTestSMS(i, sts) ==
    /\ net[i].op = "sendTestSMS"
    /\ sts \in Endings(net[i])
    /\ LET r == Seen(net[i], sts, 1)
       IN last' = [Event("sendTestSMS", "settle", r.st, SendTestAlerts(r), <<>>)
                      EXCEPT !.data = r.data]
    /\ testScreen' = [testScreen EXCEPT !.loading = FALSE]
    /\ net' = Retire(net, i, FALSE)
    /\ UNCHANGED OthersThanTest
    /\ UNCHANGED issued

-----------------------------------------------------------------------------
(* AsyncStorage *)

StorageKeys == {"email_config", "sms_filters", "sms_logs", "app_settings", "service_status"}

\* JSON.stringify and JSON.parse: a stored text that parses back to the value
\* What a key holds: nothing, a plain text, the JSON text of a value, or a text
\* that JSON.parse rejects
Absent == [kind |-> "null"]
Raw(text) == [kind |-> "raw", text |-> text]
Stringify(value) == [kind |-> "json", value |-> value]
Unparsable == [kind |-> "garbled"]
IsJson(text) == text.kind = "json"
Parse(text) == text.value

GetItem(key) == Request("getItem", key, 0, NoBody)
SetItem(key, value) == Request("setItem", key, 0, [value |-> value])
MultiRemove(keys) == Request("multiRemove", "", 0, [keys |-> keys])

-----------------------------------------------------------------------------
(* HomeScreen *)

HomeInit ==
    [stats |-> [totalSMS |-> 0, forwardedToday |-> 0, activeFilters |-> 0,
                emailConfigured |-> FALSE],
     isServiceRunning |-> FALSE]

\* loadDashboardData up to its await: Promise.all of three reads
LoadDashboardCall ==
    Call("loadDashboardData", "mount",
         <<GetItem("email_config"), GetItem("sms_filters"), GetItem("sms_logs")>>)

\* checkServiceStatus up to its await
CheckServiceCall == Call("checkServiceStatus", "mount", <<GetItem("service_status")>>)

\* `text ? JSON.parse(text) : []'
ParsedList(text) == IF text.kind = "null" THEN {} ELSE Parse(text)

\* loadDashboardData reaches its catch: a read rejected or JSON.parse threw
DashboardFailed(sts, filters, logs) ==
    \/ Outcome(sts) # "ok"
    \/ filters.value.kind = "garbled"
    \/ logs.value.kind = "garbled"

\* loadDashboardData's setStats
DashboardStats(emailConfig, filters, logs) ==
    [totalSMS |-> Cardinality(ParsedList(logs.value)),
     forwardedToday |-> Cardinality({log \in ParsedList(logs.value) : log.today}),
     activeFilters |-> Cardinality(ParsedList(filters.value)),
     emailConfigured |-> emailConfig.value.kind # "null"]

OthersThanHome ==
    <<screen, srvFilters, storage, filtersScreen, emailScreen, logsScreen, testScreen,
      settingsScreen>>

\* loadDashboardData after its await: its catch only logs to the console
settleLoadDashboardData(i, sts) ==
    /\ net[i].op = "loadDashboardData"
    /\ sts \in Endings(net[i])
    /\ LET emailConfig == Seen(net[i], sts, 1).data
           filters == Seen(net[i], sts, 2).data
           logs == Seen(net[i], sts, 3).data
       IN IF DashboardFailed(sts, filters, logs)
          THEN /\ UNCHANGED homeScreen
               /\ last' = Event("loadDashboardData", "settle",
                                IF Outcome(sts) = "ok" THEN "ok_garbled" ELSE Outcome(sts),
                                <<>>, <<>>)
          ELSE /\ homeScreen' = [homeScreen EXCEPT
                                    !.stats = DashboardStats(emailConfig, filters, logs)]
               /\ last' = Event("loadDashboardData", "settle", "ok", <<>>, <<>>)
    /\ net' = Retire(net, i, FALSE)
    /\ UNCHANGED OthersThanHome
    /\ UNCHANGED issued

\* checkServiceStatus after its await: its catch only logs to the console
settleCheckServiceStatus(i, sts) ==
    /\ net[i].op = "checkServiceStatus"
    /\ sts \in Endings(net[i])
    /\ LET r == Seen(net[i], sts, 1)
       IN /\ homeScreen' = IF r.st = "ok"
                           THEN [homeScreen EXCEPT
                                    !.isServiceRunning = (r.data.value = Raw("running"))]
                           ELSE homeScreen
          /\ last' = Event("checkServiceStatus", "settle", r.st, <<>>, <<>>)
    /\ net' = Retire(net, i, FALSE)
    /\ UNCHANGED OthersThanHome
    /\ UNCHANGED issued

\* toggleService up to its await: newStatus is computed from the rendered flag
ToggleServiceRequest(isServiceRunning) ==
    SetItem("service_status", Raw(IF ~isServiceRunning THEN "running" ELSE "stopped"))

toggleService(limit) ==
    /\ screen = "home"
    /\ Len(net) < limit
    /\ issued < MaxCalls
    /\ LET req == ToggleServiceRequest(homeScreen.isServiceRunning)
       IN /\ issued' = issued + 1
          /\ net' = Append(net, Call("toggleService", "user", <<req>>))
          /\ last' = Event("toggleService", "call", "issued", <<>>, <<req>>)
    /\ UNCHANGED <<homeScreen, OthersThanHome>>

\* toggleService after its await
settleToggleService(i, sts) ==
    /\ net[i].op = "toggleService"
    /\ sts \in Endings(net[i])
    /\ LET r == Seen(net[i], sts, 1)
           newStatus == net[i].reqs[1].body.value = Raw("running")
       IN IF r.st = "ok"
          THEN /\ homeScreen' = [homeScreen EXCEPT !.isServiceRunning = newStatus]
               /\ last' = Event("toggleService", "settle", r.st, <<"Service Status">>, <<>>)
          ELSE /\ UNCHANGED homeScreen
               /\ last' = Event("toggleService", "settle", r.st, <<"Error">>, <<>>)
    /\ net' = Retire(net, i, FALSE)
    /\ UNCHANGED OthersThanHome
    /\ UNCHANGED issued

-----------------------------------------------------------------------------
(* SettingsScreen *)

SettingKeys ==
    {"notificationsEnabled", "runInBackground", "autoStart", "encryptMessages",
     "soundEnabled", "vibrationEnabled"}

DefaultSettings ==
    [notificationsEnabled |-> TRUE, runInBackground |-> TRUE, autoStart |-> FALSE,
     encryptMessages |-> FALSE, soundEnabled |-> TRUE, vibrationEnabled |-> TRUE]

SettingsInit == [settings |-> DefaultSettings, dialog |-> FALSE]

\* loadSettings up to its await
LoadSettingsCall == Call("loadSettings", "mount", <<GetItem("app_settings")>>)

\* `{ ...settings, ...saved }' with the settings of the render that mounted
Merged(settings, saved) ==
    [key \in SettingKeys |-> IF key \in DOMAIN saved THEN saved[key] ELSE settings[key]]

OthersThanSettings ==
    <<screen, srvFilters, storage, homeScreen, filtersScreen, emailScreen, logsScreen,
      testScreen>>

\* loadSettings after its await: its catch only logs to the console
settleLoadSettings(i, sts) ==
    /\ net[i].op = "loadSettings"
    /\ sts \in Endings(net[i])
    /\ LET r == Seen(net[i], sts, 1)
       IN IF r.st = "ok" /\ IsJson(r.data.value)
          THEN /\ settingsScreen' =
                      [settingsScreen EXCEPT
                          !.settings = Merged(DefaultSettings, Parse(r.data.value))]
               /\ last' = Event("loadSettings", "settle", "ok", <<>>, <<>>)
          ELSE /\ UNCHANGED settingsScreen
               /\ last' = Event("loadSettings", "settle",
                                IF r.st = "ok" /\ r.data.value.kind = "garbled"
                                THEN "ok_garbled" ELSE r.st,
                                <<>>, <<>>)
    /\ net' = Retire(net, i, FALSE)
    /\ UNCHANGED OthersThanSettings
    /\ UNCHANGED issued

\* updateSetting up to its await; a Switch reports the other value, and the
\* one of encryptMessages is disabled
updateSetting(key, limit) ==
    /\ screen = "settings"
    /\ key # "encryptMessages"
    /\ ~settingsScreen.dialog
    /\ Len(net) < limit
    /\ issued < MaxCalls
    /\ LET newSettings == [settingsScreen.settings EXCEPT ![key] = ~@]
           req == SetItem("app_settings", Stringify(newSettings))
       IN /\ settingsScreen' = [settingsScreen EXCEPT !.settings = newSettings]
          /\ issued' = issued + 1
          /\ net' = Append(net, Call("updateSetting", "user", <<req>>))
          /\ last' = Event("updateSetting", "call", "issued", <<>>, <<req>>)
    /\ UNCHANGED OthersThanSettings

\* updateSetting after its await
settleUpdateSetting(i, sts) ==
    /\ net[i].op = "updateSetting"
    /\ sts \in Endings(net[i])
    /\ LET r == Seen(net[i], sts, 1)
       IN last' = Event("updateSetting", "settle", r.st,
                        IF r.st = "ok" THEN <<>> ELSE <<"Error">>, <<>>)
    /\ net' = Retire(net, i, FALSE)
    /\ UNCHANGED <<settingsScreen, OthersThanSettings>>
    /\ UNCHANGED issued

\* clearAllData: the confirmation dialog opens
clearAllData ==
    /\ screen = "settings"
    /\ ~settingsScreen.dialog
    /\ settingsScreen' = [settingsScreen EXCEPT !.dialog = TRUE]
    /\ last' = Event("clearAllData", "ui", "", <<"Clear All Data">>, <<>>)
    /\ UNCHANGED <<net, OthersThanSettings>>
    /\ UNCHANGED issued

\* The dialog's Cancel button
cancelClearAll ==
    /\ screen = "settings"
    /\ settingsScreen.dialog
    /\ settingsScreen' = [settingsScreen EXCEPT !.dialog = FALSE]
    /\ last' = Quiet
    /\ UNCHANGED <<net, OthersThanSettings>>
    /\ UNCHANGED issued

ClearAllRequest == MultiRemove(StorageKeys)

\* The dialog's Clear All button: its onPress up to the await
confirmClearAll(limit) ==
    /\ screen = "settings"
    /\ settingsScreen.dialog
    /\ Len(net) < limit
    /\ issued < MaxCalls
    /\ settingsScreen' = [settingsScreen EXCEPT !.dialog = FALSE]
    /\ issued' = issued + 1
    /\ net' = Append(net, Call("clearAllData", "user", <<ClearAllRequest>>))
    /\ last' = Event("clearAllData", "call", "issued", <<>>, <<ClearAllRequest>>)
    /\ UNCHANGED OthersThanSettings

\* The Clear All button's onPress after its await
settleClearAllData(i, sts) ==
    /\ net[i].op = "clearAllData"
    /\ sts \in Endings(net[i])
    /\ LET r == Seen(net[i], sts, 1)
       IN last' = Event("clearAllData", "settle", r.st,
                        IF r.st = "ok" THEN <<"Success">> ELSE <<"Error">>, <<>>)
    /\ net' = Retire(net, i, FALSE)
    /\ UNCHANGED <<settingsScreen, OthersThanSettings>>
    /\ UNCHANGED issued

-----------------------------------------------------------------------------
(* The backend and the device's store, as the screens assume them *)

\* The filters a backend may hold before the client has created any
SeedFilters ==
    {[id |-> id, name |-> "a", filter_type |-> "regex", filter_value |-> "a",
      enabled |-> FALSE] : id \in FilterIds}

StoredIds(store) == {f.id : f \in store}

\* The store after a 2xx answer to a request on /api/filters
ApplyFilters(req, store) ==
    IF req.path = "/api/filters" /\ req.method = "POST"
    THEN LET id == CHOOSE n \in FilterIds \ StoredIds(store) :
                       \A m \in FilterIds \ StoredIds(store) : n <= m
         IN store \cup {[id |-> id, name |-> req.body.name,
                         filter_type |-> req.body.filter_type,
                         filter_value |-> req.body.filter_value,
                         enabled |-> req.body.enabled]}
    ELSE IF req.path = "/api/filters/:id" /\ req.method = "DELETE"
    THEN {f \in store : f.id # req.id}
    ELSE IF req.path = "/api/filters/:id" /\ req.method = "PUT"
    THEN {IF f.id # req.id THEN f
          ELSE IF DOMAIN req.body = {"enabled"}
          THEN [f EXCEPT !.enabled = req.body.enabled]
          ELSE [id |-> f.id, name |-> req.body.name,
                filter_type |-> req.body.filter_type,
                filter_value |-> req.body.filter_value,
                enabled |-> req.body.enabled] : f \in store}
    ELSE store

\* Whether the backend can answer the request with a 2xx status
CanAccept(req, store) ==
    IF req.path = "/api/filters/:id" THEN req.id \in StoredIds(store)
    ELSE IF req.path = "/api/filters" /\ req.method = "POST"
    THEN FilterIds \ StoredIds(store) # {}
    ELSE TRUE

\* The email configurations a backend may hold: an SMTP one with its password,
\* one without, and one whose delivery method the client has no tab for
SmtpConfig ==
    [email_type |-> "smtp", smtp_server |-> "a", smtp_port |-> 587,
     smtp_username |-> "a", smtp_password |-> "secret", use_tls |-> TRUE,
     recipient_email |-> "a", sender_name |-> "a"]

SrvConfigs ==
    {SmtpConfig,
     [SmtpConfig EXCEPT !.email_type = "emergent", !.smtp_password = ""],
     [SmtpConfig EXCEPT !.email_type = "sendgrid", !.smtp_password = ""]}

ConfigBodies ==
    {[kind |-> "config", status |-> "not_configured"]}
        \cup {[kind |-> "config", status |-> "configured", config |-> config] :
                config \in SrvConfigs}

\* Log entries: the forwarded flag and the status decide how one is shown
Statuses == {"sent", "failed", "filtered", "no_config", "pending", "bounced"}
LogEntries == [id : {1}, forwarded : BOOLEAN, email_status : Statuses]

\* The lists of log entries a backend may return: every single entry, or a few
AllLogs == {{}} \cup {{log} : log \in LogEntries}
FewLogs == {{}, {[id |-> 1, forwarded |-> TRUE, email_status |-> "sent"]}}

StatsBody == [kind |-> "stats", total_messages |-> 1]

\* The JSON bodies the backend can answer an accepted request with
Bodies(req, logs) ==
    IF req.path = "/api/filters" /\ req.method = "GET"
    THEN {[kind |-> "list", items |-> srvFilters]}
    ELSE IF req.path = "/api/email/config" /\ req.method = "GET"
    THEN ConfigBodies
    ELSE IF req.path = "/api/sms/messages"
    THEN {[kind |-> "list", items |-> items] : items \in logs}
    ELSE IF req.path = "/api/sms/stats"
    THEN {StatsBody}
    ELSE IF req.path \in {"/api/email/test", "/api/sms/forward"}
    THEN Results
    ELSE {[kind |-> "ack"]}

\* The backend accepts one request, acts on it and answers it
respond(i, k, logs) ==
    /\ net[i].reqs[k].method \in HttpMethods
    /\ net[i].resp[k].st = "pending"
    /\ CanAccept(net[i].reqs[k], srvFilters)
    /\ \E data \in Bodies(net[i].reqs[k], logs) :
          net' = [net EXCEPT ![i].resp[k] = [st |-> "done", data |-> data]]
    /\ srvFilters' = ApplyFilters(net[i].reqs[k], srvFilters)
    /\ last' = Quiet
    /\ UNCHANGED <<screen, storage, homeScreen, filtersScreen, emailScreen, logsScreen,
                   testScreen, settingsScreen>>
    /\ UNCHANGED issued

\* What the device's store may hold when the app starts
EmptyStorage == [key \in StorageKeys |-> Absent]

UsedStorage ==
    [email_config |-> Stringify("config"),
     sms_filters |-> Stringify({1}),
     sms_logs |-> Stringify({[id |-> 1, today |-> TRUE, forwarded |-> TRUE],
                             [id |-> 2, today |-> FALSE, forwarded |-> TRUE]}),
     app_settings |-> Stringify([DefaultSettings EXCEPT !.autoStart = TRUE]),
     service_status |-> Raw("running")]

BrokenStorage ==
    [EmptyStorage EXCEPT !.sms_logs = Unparsable, !.app_settings = Unparsable]

\* A stored log entry: whether its timestamp is of today, and whether it was
\* forwarded
StoredLogs == [id : {1}, today : BOOLEAN, forwarded : BOOLEAN]

\* The stores of a device in use: a log entry of any kind, and the service
\* left running, left stopped, or never started
UsedStores ==
    {[UsedStorage EXCEPT !.sms_logs = Stringify({log}), !.service_status = status] :
        log \in StoredLogs, status \in {Raw("running"), Raw("stopped"), Absent}}

\* The store after the operation
ApplyStorage(req, store) ==
    IF req.method = "setItem" THEN [store EXCEPT ![req.path] = req.body.value]
    ELSE IF req.method = "multiRemove"
    THEN [key \in StorageKeys |-> IF key \in req.body.keys THEN Absent ELSE store[key]]
    ELSE store

\* AsyncStorage carries out one operation
respondStorage(i, k) ==
    /\ net[i].reqs[k].method \notin HttpMethods
    /\ net[i].resp[k].st = "pending"
    /\ LET req == net[i].reqs[k]
           data == IF req.method = "getItem"
                   THEN [kind |-> "item", value |-> storage[req.path]]
                   ELSE [kind |-> "ack"]
       IN /\ net' = [net EXCEPT ![i].resp[k] = [st |-> "done", data |-> data]]
          /\ storage' = ApplyStorage(req, storage)
    /\ last' = Quiet
    /\ UNCHANGED <<screen, srvFilters, homeScreen, filtersScreen, emailScreen, logsScreen,
                   testScreen, settingsScreen>>
    /\ UNCHANGED issued

-----------------------------------------------------------------------------
(* Navigation *)

Routes == {"filters", "email", "logs", "test", "settings"}

\* The effect of the screen that mounts
MountCall(route) ==
    CASE route = "filters" -> <<LoadFiltersCall>>
      [] route = "email" -> <<Call("loadEmailConfig", "mount", <<LoadEmailConfigRequest>>)>>
      [] route = "logs" -> <<LoadDataCall("mount")>>
      [] route = "settings" -> <<LoadSettingsCall>>
      [] OTHER -> <<>>

\* router.push from the dashboard: the screen mounts and its effect runs
push(route) ==
    /\ screen = "home"
    /\ net = <<>>
    /\ screen' = route
    /\ net' = MountCall(route)
    /\ last' = IF net' = <<>> THEN Quiet
               ELSE Event(net'[1].op, "call", "issued", <<>>, net'[1].reqs)
    /\ UNCHANGED <<srvFilters, storage, homeScreen, filtersScreen, emailScreen,
                   logsScreen, testScreen, settingsScreen>>
    /\ UNCHANGED issued

\* router.back: the screen unmounts and its hooks are gone
back ==
    /\ screen # "home"
    /\ net = <<>>
    /\ screen' = "home"
    /\ filtersScreen' = FiltersInit
    /\ emailScreen' = EmailInit
    /\ logsScreen' = LogsInit
    /\ testScreen' = TestInit
    /\ settingsScreen' = SettingsInit
    /\ last' = Quiet
    /\ UNCHANGED <<net, srvFilters, storage, homeScreen>>
    /\ UNCHANGED issued

-----------------------------------------------------------------------------
(* The app *)

\* The dashboard has mounted and its effect has run
Start(stores, filters) ==
    /\ screen = "home"
    /\ net = <<LoadDashboardCall, CheckServiceCall>>
    /\ last = Event("mount", "call", "issued", <<>>,
                    LoadDashboardCall.reqs \o CheckServiceCall.reqs)
    /\ srvFilters \in filters
    /\ storage \in stores
    /\ homeScreen = HomeInit
    /\ filtersScreen = FiltersInit
    /\ emailScreen = EmailInit
    /\ logsScreen = LogsInit
    /\ testScreen = TestInit
    /\ settingsScreen = SettingsInit
    /\ issued = 0

Init == Start({EmptyStorage, UsedStorage, BrokenStorage}, SUBSET SeedFilters)

FiltersModal(limit, texts, types) ==
    \/ openAddModal
    \/ \E f \in Cards : openEditModal(f)
    \/ \E t \in texts : setFilterName(t)
    \/ \E t \in types : setFilterType(t)
    \/ \E t \in texts : setFilterValue(t)
    \/ closeModal
    \/ saveFilter(limit)
    \/ \E i \in DOMAIN net : \E sts \in Endings(net[i]) : settleSaveFilter(i, sts)

FiltersCards(limit) ==
    \/ \E f \in Cards : toggleFilter(f, limit)
    \/ \E f \in Cards : deleteFilter(f)
    \/ cancelDelete
    \/ confirmDelete(limit)
    \/ \E i \in DOMAIN net : \E sts \in Endings(net[i]) : settleToggleFilter(i, sts)
    \/ \E i \in DOMAIN net : \E sts \in Endings(net[i]) : settleDeleteFilter(i, sts)

FiltersLoad ==
    \E i \in DOMAIN net : \E sts \in Endings(net[i]) : settleLoadFilters(i, sts)

EmailForm(texts, fields, providers) ==
    \/ \E id \in Tabs : setActiveTab(id)
    \/ \E field \in fields : \E t \in texts : setConfigText(field, t)
    \/ toggleTls
    \/ \E provider \in providers : getProviderPresets(provider)

EmailPort == \E text \in PortTexts : setSmtpPort(text)

EmailCalls(limit) ==
    \/ saveEmailConfig(limit)
    \/ testEmailConfig(limit)
    \/ \E i \in DOMAIN net : \E sts \in Endings(net[i]) : settleLoadEmailConfig(i, sts)
    \/ \E i \in DOMAIN net : \E sts \in Endings(net[i]) : settleSaveEmailConfig(i, sts)
    \/ \E i \in DOMAIN net : \E sts \in Endings(net[i]) : settleTestEmailConfig(i, sts)

LogsView ==
    \/ \E status \in {"all", "forwarded", "failed"} : setFilterStatus(status)
    \/ clearLogs

LogsCalls(limit) ==
    \/ onRefresh(limit)
    \/ \E i \in DOMAIN net : \E sts \in Endings(net[i]) : settleLoadData(i, sts)

TestForm(texts, chosen) ==
    \/ \E preset \in chosen : usePreset(preset)
    \/ \E field \in {"sender", "content"} : \E t \in texts : setTestText(field, t)

TestCalls(limit) ==
    \/ sendTestSMS(limit)
    \/ \E i \in DOMAIN net : \E sts \in Endings(net[i]) : settleSendTestSMS(i, sts)

HomeLoads ==
    \/ \E i \in DOMAIN net : \E sts \in Endings(net[i]) : settleLoadDashboardData(i, sts)
    \/ \E i \in DOMAIN net : \E sts \in Endings(net[i]) : settleCheckServiceStatus(i, sts)

HomeCalls(limit) ==
    \/ toggleService(limit)
    \/ \E i \in DOMAIN net : \E sts \in Endings(net[i]) : settleToggleService(i, sts)

SettingsNext(limit, keys) ==
    \/ \E key \in keys : updateSetting(key, limit)
    \/ clearAllData
    \/ cancelClearAll
    \/ confirmClearAll(limit)
    \/ \E i \in DOMAIN net : \E sts \in Endings(net[i]) : settleLoadSettings(i, sts)
    \/ \E i \in DOMAIN net : \E sts \in Endings(net[i]) : settleUpdateSetting(i, sts)
    \/ \E i \in DOMAIN net : \E sts \in Endings(net[i]) : settleClearAllData(i, sts)

\* The environment: the backend and the store act on what they were sent
World(logs) ==
    \/ \E i \in DOMAIN net : \E k \in DOMAIN net[i].reqs : respond(i, k, logs)
    \/ \E i \in DOMAIN net : \E k \in DOMAIN net[i].reqs : respondStorage(i, k)

\* The app as a whole, one call at a time, with one text to type
Next ==
    \/ \E route \in Routes : push(route)
    \/ back
    \/ HomeLoads
    \/ HomeCalls(MaxInFlight)
    \/ SettingsNext(MaxInFlight, {"autoStart"})
    \/ LogsView
    \/ LogsCalls(MaxInFlight)
    \/ TestForm({"a"}, {CHOOSE preset \in presets : preset.sender = "BANK"})
    \/ TestCalls(MaxInFlight)
    \/ EmailForm({"a"}, {"recipient_email"}, {"gmail"})
    \/ EmailCalls(MaxInFlight)
    \/ FiltersModal(MaxInFlight, {"a"}, {"sender"})
    \/ FiltersCards(MaxInFlight)
    \/ FiltersLoad
    \/ World(FewLogs)

Spec == Init /\ [][Next]_vars

\* Overlapping calls: the operations that send requests, two at a time
OverlapNext ==
    \/ \E route \in {"filters", "logs", "test", "email"} : push(route)
    \/ back
    \/ HomeLoads
    \/ LogsCalls(MaxOverlap)
    \/ TestCalls(MaxOverlap)
    \/ \E t \in {"a"} : setConfigText("recipient_email", t)
    \/ EmailCalls(MaxOverlap)
    \/ openAddModal
    \/ \E t \in {"a"} : setFilterName(t)
    \/ saveFilter(MaxOverlap)
    \/ \E i \in DOMAIN net : \E sts \in Endings(net[i]) : settleSaveFilter(i, sts)
    \/ \E f \in Cards : toggleFilter(f, MaxOverlap)
    \/ \E i \in DOMAIN net : \E sts \in Endings(net[i]) : settleToggleFilter(i, sts)
    \/ FiltersLoad
    \/ World(FewLogs)

OverlapSpec == Start({EmptyStorage}, SUBSET SeedFilters) /\ [][OverlapNext]_vars

\* The forms: every text and every type, one call at a time
FormsNext ==
    \/ \E route \in {"filters", "email"} : push(route)
    \/ back
    \/ HomeLoads
    \/ EmailForm({"", "a"}, {"recipient_email", "smtp_password"}, {"gmail"})
    \/ EmailPort
    \/ EmailCalls(MaxInFlight)
    \/ FiltersModal(MaxInFlight, Texts, ModalTypes)
    \/ FiltersCards(MaxInFlight)
    \/ FiltersLoad
    \/ World(FewLogs)

FormsSpec == Start({EmptyStorage}, SUBSET SeedFilters) /\ [][FormsNext]_vars

\* The log list: every kind of entry the backend may return
LogsNext ==
    \/ push("logs")
    \/ back
    \/ HomeLoads
    \/ LogsView
    \/ LogsCalls(MaxInFlight)
    \/ World(AllLogs)

LogsSpec == Start({EmptyStorage}, {SeedFilters}) /\ [][LogsNext]_vars

\* The device's store: a device in use, the dashboard, the settings and the
\* filter list
StoreNext ==
    \/ \E route \in {"settings", "filters"} : push(route)
    \/ back
    \/ HomeLoads
    \/ HomeCalls(MaxInFlight)
    \/ SettingsNext(MaxInFlight, {"autoStart"})
    \/ FiltersLoad
    \/ World(FewLogs)

StoreSpec == Start(UsedStores, SUBSET SeedFilters) /\ [][StoreNext]_vars

\* The two test operations: every text in the test form, every preset, and
\* the test of the email configuration
TestsNext ==
    \/ \E route \in {"test", "email"} : push(route)
    \/ back
    \/ HomeLoads
    \/ TestForm(PaddedTexts, presets)
    \/ TestCalls(MaxInFlight)
    \/ \E t \in {"a"} : setConfigText("recipient_email", t)
    \/ testEmailConfig(MaxInFlight)
    \/ \E i \in DOMAIN net : \E sts \in Endings(net[i]) : settleLoadEmailConfig(i, sts)
    \/ \E i \in DOMAIN net : \E sts \in Endings(net[i]) : settleTestEmailConfig(i, sts)
    \/ World(FewLogs)

TestsSpec == Start({EmptyStorage}, {{}}) /\ [][TestsNext]_vars

-----------------------------------------------------------------------------
(* What the claims are about *)

\* The handlers whose catch shows an alert, and those whose catch only logs
Alerting ==
    {"saveFilter", "toggleFilter", "deleteFilter", "saveEmailConfig", "testEmailConfig",
     "sendTestSMS", "toggleService", "updateSetting", "clearAllData"}
Loading == {"loadData", "loadFilters"}
Silent == {"loadEmailConfig", "loadDashboardData", "checkServiceStatus", "loadSettings"}

\* The continuation of event e ran after a failure: a rejection, a non-2xx
\* status, or a body (or stored text) that did not parse where it is parsed
Failure(e) ==
    /\ e.phase = "settle"
    /\ IF e.op \in {"saveFilter", "toggleFilter", "deleteFilter"}
       THEN ~IsOk(e.outcome)
       ELSE e.outcome # "ok"

\* C1 as stated: every failure of a network or storage call, in a mount-time
\* load as in a user's action, ends with an alert on screen.
C1_EveryFailureAlerts == Failure(last) => last.alerts # <<>>

\* C1, amended: a failure in a user's action (save, test, toggle, delete, clear)
\* shows an alert; loadData and loadFilters show one for a rejected fetch or an
\* unparsable body but none for a non-2xx answer whose body parses; and
\* loadEmailConfig, loadDashboardData, checkServiceStatus and loadSettings
\* show none.
C1_FailureAlerts ==
    Failure(last) =>
        /\ last.op \in Alerting \cup Loading \cup Silent
        /\ last.op \in Alerting => last.alerts # <<>>
        /\ last.op \in Loading => (last.alerts # <<>> <=> last.outcome # "err")
        /\ last.op \in Silent => last.alerts = <<>>

\* A save of the email configuration came back with a non-2xx status and the
\* error alert is up
C1_Witness ==
    /\ last.op = "saveEmailConfig"
    /\ last.phase = "settle"
    /\ last.outcome = "err"
    /\ last.alerts = <<"Error">>

\* C2: no retry.  The continuation that runs after a failure sends nothing and
\* leaves nothing of its call awaited, so that the next request is sent by a
\* step of the user or a mount; and no step sends one request twice.
C2_NoRetry ==
    [][/\ Failure(last') => last'.sent = <<>> /\ Len(net') = Len(net) - 1
       /\ \A j, k \in DOMAIN last'.sent : j # k => last'.sent[j] # last'.sent[k]
       /\ Len(net') > Len(net) => last'.phase = "call"]_vars

\* A save in the filter modal was rejected: the modal is still open and no
\* call is awaited
C2_Witness ==
    /\ last.op = "saveFilter"
    /\ Failure(last)
    /\ last.outcome = "rejected"
    /\ filtersScreen.modalVisible
    /\ net = <<>>

\* C3: no ordering between overlapping loads.  The list on screen after a load
\* has settled with a body that parses is the list of that answer, whichever
\* of the overlapping loads was issued first: answers are applied in the order
\* they arrive, and the one applied last stays.
C3_LastApplied ==
    /\ last.phase = "settle" /\ last.op = "loadFilters" /\ Parsable(last.outcome)
          => filtersScreen.filters = last.data
    /\ last.phase = "settle" /\ last.op = "loadData" /\ last.outcome \in {"ok", "err"}
          => logsScreen.logs = last.data

\* The answer to an earlier loadFilters was applied after that to a later one:
\* the list on screen is the earlier one and no longer the backend's
C3_Witness ==
    /\ last.phase = "settle"
    /\ last.op = "loadFilters"
    /\ last.outcome = "ok"
    /\ last.stale
    /\ filtersScreen.filters = last.data
    /\ filtersScreen.filters.items # srvFilters

\* A call of the handler is awaited
InFlight(op) == \E i \in DOMAIN net : net[i].op = op

\* One more request may be sent within the bounds
Room == Len(net) < MaxOverlap /\ issued < MaxCalls

Sent(op) == last.op = op /\ last.phase = "call" /\ last.outcome = "issued"

\* loadEmailConfig has put a configuration into the form
Loaded ==
    /\ last.op = "loadEmailConfig"
    /\ last.phase = "settle"
    /\ last.outcome = "ok"
    /\ IsConfigured(last.data)

\* C5 as stated: the form after loadEmailConfig holds the configuration the
\* backend returned, field for field, and the body of a save is the record on
\* screen.
C5_Verbatim ==
    /\ Loaded => emailScreen.config = last.data.config
    /\ Sent("saveEmailConfig") => last.sent[1].body = emailScreen.config
    /\ Sent("saveFilter") =>
          /\ last.sent[1].body.name = filtersScreen.formData.name
          /\ last.sent[1].body.filter_type = filtersScreen.formData.filter_type
          /\ last.sent[1].body.filter_value = filtersScreen.formData.filter_value

\* C5, amended: the form after loadEmailConfig holds the returned configuration
\* with smtp_password emptied, and the active tab is its email_type (smtp when
\* that is empty); the body of saveEmailConfig is the form's configuration with
\* email_type replaced by the active tab; the body of saveFilter has the form's
\* name and type, the form's value or null when the type is 'all', and enabled
\* true.
C5_AlmostVerbatim ==
    /\ Loaded =>
          /\ emailScreen.config = [last.data.config EXCEPT !.smtp_password = ""]
          /\ emailScreen.activeTab = IF last.data.config.email_type = "" THEN "smtp"
                                     ELSE last.data.config.email_type
    /\ Sent("saveEmailConfig") =>
          last.sent[1].body = [emailScreen.config EXCEPT !.email_type = emailScreen.activeTab]
    /\ Sent("saveFilter") =>
          /\ last.sent[1].body.name = filtersScreen.formData.name
          /\ last.sent[1].body.filter_type = filtersScreen.formData.filter_type
          /\ last.sent[1].body.filter_value =
                IF filtersScreen.formData.filter_type = "all" THEN Null
                ELSE filtersScreen.formData.filter_value
          /\ last.sent[1].body.enabled

\* A configuration with a password was loaded and the form shows none
C5_Witness ==
    /\ Loaded
    /\ last.data.config.smtp_password = "secret"
    /\ emailScreen.config.smtp_password = ""

\* The method/endpoint pairs of the backend
Endpoints ==
    {<<"POST", "/api/sms/forward">>, <<"GET", "/api/sms/messages">>,
     <<"GET", "/api/sms/stats">>, <<"GET", "/api/filters">>, <<"POST", "/api/filters">>,
     <<"PUT", "/api/filters/:id">>, <<"DELETE", "/api/filters/:id">>,
     <<"GET", "/api/email/config">>, <<"POST", "/api/email/config">>,
     <<"POST", "/api/email/test">>}

\* The HTTP requests of event e
HttpSent(e) == {e.sent[k] : k \in {j \in DOMAIN e.sent : e.sent[j].method \in HttpMethods}}

CardIds == {f.id : f \in Cards}

\* C6 as stated: every request goes to one of the endpoints, and a PUT or
\* DELETE carries the id of a filter of the list on screen.
C6_IdOnScreen ==
    \A r \in HttpSent(last) :
        /\ <<r.method, r.path>> \in Endpoints
        /\ r.path = "/api/filters/:id" /\ FiltersRendered => r.id \in CardIds

\* C6, amended: every request goes to one of the endpoints; a PUT or DELETE
\* carries the id of the filter whose card button (edit, toggle, delete) was
\* pressed, which was in the list on screen at that press: a toggle's at once,
\* an update's and a delete's through the modal or the dialog, which take a
\* filter of the list when they open and keep it until the request is sent.
C6_IdOfPressedCard ==
    [][/\ \A r \in HttpSent(last') :
             /\ <<r.method, r.path>> \in Endpoints
             /\ r.path = "/api/filters/:id" =>
                   r.id \in CardIds \cup {filtersScreen.editingFilter.id,
                                          filtersScreen.confirm.id}
       /\ filtersScreen'.editingFilter \in
             Cards \cup {NoFilter, filtersScreen.editingFilter}
       /\ filtersScreen'.confirm \in Cards \cup {NoFilter, filtersScreen.confirm}]_vars

\* An update was sent for a filter that is no longer in the list on screen
C6_Witness ==
    /\ Sent("saveFilter")
    /\ last.sent[1].method = "PUT"
    /\ FiltersRendered
    /\ last.sent[1].id \notin CardIds

Labels == {"Forwarded", "Failed", "Filtered", "No Config", "Pending"}

\* The icon of each label
IconOf ==
    [label \in Labels |->
        CASE label = "Forwarded" -> "checkmark-circle"
          [] label = "Failed" -> "close-circle"
          [] label = "Filtered" -> "filter-circle"
          [] label = "No Config" -> "settings"
          [] OTHER -> "time"]

\* C8 as stated: the label of an entry is one of the five and follows its
\* email_status, 'sent' being shown as Forwarded; the icon goes with the label.
C8_ByStatus ==
    \A card \in LogCards :
        /\ card.label \in Labels
        /\ card.label = "Forwarded" <=> card.log.email_status = "sent"
        /\ card.label = "Failed" <=> card.log.email_status = "failed"
        /\ card.label = "Filtered" <=> card.log.email_status = "filtered"
        /\ card.label = "No Config" <=> card.log.email_status = "no_config"
        /\ card.icon = IconOf[card.label]

\* C8, amended: the label of an entry is one of the five; it is Forwarded
\* exactly when the forwarded flag is set, whatever the email_status; with the
\* flag clear, 'failed' is Failed, 'filtered' Filtered, 'no_config' No Config
\* and any other status, 'sent' included, Pending; the icon goes with the label.
C8_ByFlagThenStatus ==
    \A card \in LogCards :
        /\ card.label \in Labels
        /\ card.label = "Forwarded" <=> card.log.forwarded
        /\ card.label = "Failed" <=> ~card.log.forwarded /\ card.log.email_status = "failed"
        /\ card.label = "Filtered"
              <=> ~card.log.forwarded /\ card.log.email_status = "filtered"
        /\ card.label = "No Config"
              <=> ~card.log.forwarded /\ card.log.email_status = "no_config"
        /\ card.icon = IconOf[card.label]

\* An entry with status 'sent' and the flag clear is on screen as Pending
C8_Witness ==
    \E card \in LogCards :
        /\ card.log.email_status = "sent"
        /\ ~card.log.forwarded
        /\ card.label = "Pending"
        /\ card.icon = "time"

\* The filter bodies the step sent
FilterBodies == {r.body : r \in {q \in HttpSent(last) : Sent("saveFilter")}}

\* C9 as stated: a body sent by saveFilter has one of the three types, a
\* non-blank name, and a value that is null for 'all' and non-blank otherwise.
C9_TypeOfTheThree ==
    \A body \in FilterBodies :
        /\ body.filter_type \in ModalTypes
        /\ Trim(body.name) # ""
        /\ body.filter_value = Null <=> body.filter_type = "all"
        /\ body.filter_type # "all" => Trim(body.filter_value) # ""

\* C9, amended: the type is one of the three or the type the edited filter had
\* in the list (no type button pressed since the modal opened); the name is
\* non-blank; the value is null exactly for 'all' and non-blank otherwise.
C9_TypeOfTheForm ==
    \A body \in FilterBodies :
        /\ body.filter_type \in ModalTypes \cup {filtersScreen.editingFilter.filter_type}
        /\ filtersScreen.editingFilter = NoFilter => body.filter_type \in ModalTypes
        /\ Trim(body.name) # ""
        /\ body.filter_value = Null <=> body.filter_type = "all"
        /\ body.filter_type # "all" => Trim(body.filter_value) # ""

\* An update was sent with the type of a filter that only the backend knows
C9_Witness ==
    /\ Sent("saveFilter")
    /\ last.sent[1].method = "PUT"
    /\ last.sent[1].body.filter_type = "regex"

\* C10 as stated: the email_type sent is the active tab and one of the three.
C10_TabOfTheThree ==
    Sent("saveEmailConfig") =>
        /\ last.sent[1].body.email_type = emailScreen.activeTab
        /\ last.sent[1].body.email_type \in Tabs

\* C10, amended: the email_type sent is the active tab; the active tab is one
\* of the three or, until a tab is pressed, the email_type of the
\* configuration loadEmailConfig has loaded.
C10_TabOrLoaded ==
    [][/\ Sent("saveEmailConfig")' =>
             last'.sent[1].body.email_type = emailScreen'.activeTab
       /\ emailScreen'.activeTab \in Tabs \cup {emailScreen.activeTab}
             \/ (Loaded' /\ emailScreen'.activeTab = last'.data.config.email_type)]_vars

\* A configuration was saved with the delivery method of the backend's, which
\* has no tab
C10_Witness ==
    /\ Sent("saveEmailConfig")
    /\ last.sent[1].body.email_type = "sendgrid"
    /\ emailScreen.activeTab = "sendgrid"

\* Clear All has been confirmed and its success alert shown: multiRemove has
\* run on a store that held log entries, and its continuation has run
Cleared == storage["sms_logs"] = Absent /\ ~InFlight("clearAllData")

\* C11: once Clear All has succeeded, the logs, the filters and the email
\* configuration are gone: the store holds none of them, and the filter list
\* a screen loads afterwards is empty.
C11_NothingRetrievable ==
    Cleared =>
        /\ \A key \in {"email_config", "sms_filters", "sms_logs"} : storage[key] = Absent
        /\ screen = "filters" /\ FiltersRendered => Cards = {}

\* The passwords a backend may return with a configuration
Passwords == {config.smtp_password : config \in SrvConfigs}

\* C12: the SMTP password is never prefilled.  After loadEmailConfig has put a
\* configuration into the form, the form's password is empty; the form is the
\* same whatever password the backend returned; and the form's password becomes
\* non-empty only by a step of the user's typing.
C12_NeverPrefilled ==
    [][/\ Loaded' =>
             /\ emailScreen'.config.smtp_password = ""
             /\ \A password \in Passwords :
                   emailScreen' =
                       LoadEmailConfigApply(
                           emailScreen,
                           [st |-> last'.outcome,
                            data |-> [last'.data EXCEPT !.config.smtp_password = password]])
       /\ emailScreen'.config.smtp_password \notin {"", emailScreen.config.smtp_password}
             => last'.phase = "ui" /\ screen = "email" /\ net' = net]_vars

\* The SMTP configuration came with its password and the SMTP tab shows the
\* form without one
C12_Witness ==
    /\ Loaded
    /\ last.data.config = SmtpConfig
    /\ emailScreen.activeTab = "smtp"
    /\ emailScreen.config = [SmtpConfig EXCEPT !.smtp_password = ""]

\* The two effects of the dashboard's mount have run to their end, both reads
\* having succeeded: the statistics of a store with log entries are on screen
\* and checkServiceStatus has just set the flag
Mounted ==
    /\ ~InFlight("loadDashboardData")
    /\ ~InFlight("checkServiceStatus")
    /\ homeScreen.stats.totalSMS > 0
    /\ last.op = "checkServiceStatus"
    /\ last.outcome = "ok"

\* The stored settings have autoStart on
AutoStartOn ==
    /\ IsJson(storage["app_settings"])
    /\ Parse(storage["app_settings"]).autoStart

\* C13: Auto Start Service.  With autoStart on in the stored settings, the
\* service is running once the dashboard's mount effects have run, before any
\* action of the user, whatever service_status was stored.
C13_AutoStarted ==
    AutoStartOn /\ Mounted /\ issued = 0 => homeScreen.isServiceRunning

\* C14: Forwarded Today.  The statistic the dashboard shows after
\* loadDashboardData is the number of stored log entries that are of today and
\* were forwarded; an entry of today that was not forwarded is not counted.
C14_ForwardedToday ==
    last.op = "loadDashboardData" /\ last.phase = "settle" /\ last.outcome = "ok"
        => homeScreen.stats.forwardedToday =
               Cardinality({log \in ParsedList(storage["sms_logs"]) :
                               log.today /\ log.forwarded})

\* The handlers that reload the list after a 2xx answer
Chained == {"saveFilter", "toggleFilter", "deleteFilter"}

\* How many HTTP requests the step of event e sent
HttpCount(e) == Cardinality({k \in DOMAIN e.sent : e.sent[k].method \in HttpMethods})

\* C15: an operation sends at most two HTTP requests.  The synchronous part of
\* a handler sends at most two, and at most one if the handler reloads the list
\* afterwards; a continuation sends nothing but the one GET /api/filters that
\* follows a 2xx answer to a save, toggle or delete; the continuation of a load
\* and a state update send nothing; and a press that fails validation sends
\* nothing and leaves no call awaited.
C15_AtMostTwo ==
    [][/\ last'.phase = "call" =>
             /\ HttpCount(last') <= 2
             /\ last'.op \in Chained => HttpCount(last') <= 1
       /\ last'.phase = "settle" /\ last'.sent # <<>> =>
             /\ last'.op \in Chained
             /\ IsOk(last'.outcome)
             /\ last'.sent = <<LoadFiltersRequest>>
             /\ Len(net') = Len(net)
       /\ last'.phase = "settle" /\ last'.sent = <<>> => Len(net') = Len(net) - 1
       /\ last'.phase = "ui" => last'.sent = <<>> /\ Len(net') <= Len(net)
       /\ last'.outcome = "invalid" => last'.sent = <<>> /\ net' = net]_vars

\* A delete was answered with a 2xx status: its continuation has sent the GET,
\* the second and last request of the operation
C15_Witness ==
    /\ last.op = "deleteFilter"
    /\ last.phase = "settle"
    /\ last.sent = <<LoadFiltersRequest>>
    /\ InFlight("loadFilters")
    /\ ~InFlight("deleteFilter")

\* C16: a failed load leaves the log screen's data as it was.  When loadData
\* fails (a fetch rejects, a body does not parse, or an answer is not 2xx) logs
\* and stats keep their values and logs is still a list; a load that succeeds
\* replaces both with the backend's; and no step changes one without the other
\* being set by the same load.
C16_FailedLoadKeeps ==
    [][/\ last'.op = "loadData" /\ last'.phase = "settle" /\ last'.outcome # "ok" =>
             /\ logsScreen'.logs = logsScreen.logs
             /\ logsScreen'.stats = logsScreen.stats
             /\ logsScreen'.logs.kind = "list"
       /\ last'.op = "loadData" /\ last'.phase = "settle" /\ last'.outcome = "ok" =>
             /\ logsScreen'.logs = last'.data
             /\ logsScreen'.stats = StatsBody
       /\ logsScreen'.logs # logsScreen.logs \/ logsScreen'.stats # logsScreen.stats =>
             \/ last'.op = "loadData" /\ last'.phase = "settle"
             \/ logsScreen' = LogsInit]_vars

\* A press of Save Configuration would send the request
SaveWouldSend == ENABLED (saveEmailConfig(MaxInFlight) /\ Len(net') > Len(net))

\* The form holds the SMTP configuration as loadEmailConfig left it
FormAsLoaded == emailScreen.config = [SmtpConfig EXCEPT !.smtp_password = ""]

\* What saveEmailConfig requires of the form: a recipient, and on the SMTP tab
\* a server, a user name and a password
SaveEmailComplete ==
    /\ emailScreen.config.recipient_email # ""
    /\ emailScreen.activeTab = "smtp" =>
          /\ emailScreen.config.smtp_server # ""
          /\ emailScreen.config.smtp_username # ""
          /\ emailScreen.config.smtp_password # ""

\* The validation of saveEmailConfig, as an action property: a press on an
\* incomplete form shows 'Validation Error', sends nothing and leaves `loading'
\* down; a press on a complete one sends POST /api/email/config
SaveEmailValidated ==
    /\ last'.op = "saveEmailConfig" /\ last'.phase = "call" =>
          /\ last'.outcome = "invalid" <=> ~SaveEmailComplete
          /\ last'.outcome = "invalid" =>
                /\ last'.alerts = <<"Validation Error">>
                /\ last'.sent = <<>>
                /\ net' = net
                /\ ~emailScreen'.loading
                /\ emailScreen' = emailScreen
          /\ last'.outcome # "invalid" =>
                /\ Len(last'.sent) = 1
                /\ last'.sent[1].method = "POST"
                /\ last'.sent[1].path = "/api/email/config"
                /\ emailScreen'.loading

\* C17 as stated: the validation, and with the form as loaded from an SMTP
\* configuration (the password not typed again) no save is sent.
C17_LoadedNeverSaves ==
    [][/\ SaveEmailValidated
       /\ FormAsLoaded => ~SaveWouldSend]_vars

\* C17, amended: the validation, and with the form as loaded from an SMTP
\* configuration no save is sent while the SMTP tab is active; on the emergent
\* and device tabs the save is sent, with an empty password.
C17_LoadedSavesOffSmtp ==
    [][/\ SaveEmailValidated
       /\ FormAsLoaded /\ emailScreen.activeTab = "smtp" => ~SaveWouldSend
       /\ FormAsLoaded /\ emailScreen.activeTab # "smtp" /\ ~emailScreen.loading
             /\ net = <<>> /\ issued < MaxCalls /\ screen = "email" => SaveWouldSend]_vars

\* The SMTP configuration was loaded, the user went to the device tab and the
\* save was sent with the empty password
C17_Witness ==
    /\ Sent("saveEmailConfig")
    /\ FormAsLoaded
    /\ emailScreen.activeTab = "device"
    /\ last.sent[1].body.smtp_password = ""
    /\ last.sent[1].body.smtp_server = SmtpConfig.smtp_server

\* C18: sendTestSMS sends POST /api/sms/forward exactly when sender and content
\* are both non-blank after trimming; otherwise it shows 'Validation Error',
\* sends nothing and leaves `loading' down.  The body carries sender and content
\* as they are in the form, untrimmed; and the form changes by one typed field
\* or, on a preset, in both fields at once.
C18_SendsUntrimmed ==
    [][/\ last'.op = "sendTestSMS" /\ last'.phase = "call" =>
             /\ last'.outcome = "issued" <=>
                   /\ Trim(testScreen.testData.sender) # ""
                   /\ Trim(testScreen.testData.content) # ""
             /\ last'.outcome # "issued" =>
                   /\ last'.outcome = "invalid"
                   /\ last'.alerts = <<"Validation Error">>
                   /\ last'.sent = <<>>
                   /\ net' = net
                   /\ testScreen' = testScreen
                   /\ ~testScreen'.loading
             /\ last'.outcome = "issued" =>
                   /\ Len(last'.sent) = 1
                   /\ last'.sent[1].method = "POST"
                   /\ last'.sent[1].path = "/api/sms/forward"
                   /\ last'.sent[1].body.sender = testScreen.testData.sender
                   /\ last'.sent[1].body.content = testScreen.testData.content
                   /\ testScreen'.testData = testScreen.testData
       /\ testScreen'.testData # testScreen.testData =>
             \/ testScreen'.testData \in presets
             \/ /\ testScreen'.testData.sender \in PaddedTexts
                /\ testScreen'.testData.content = testScreen.testData.content
             \/ /\ testScreen'.testData.content \in PaddedTexts
                /\ testScreen'.testData.sender = testScreen.testData.sender
             \/ testScreen' = TestInit]_vars

\* A preset was tapped, a space typed before the sender, and the request sent
\* with the sender as typed
C18_Witness ==
    /\ Sent("sendTestSMS")
    /\ last.sent[1].body.sender = " a"
    /\ last.sent[1].body.content \in {preset.content : preset \in presets}
    /\ testScreen.loading

\* The continuation of the handler has just run
Settles(op) == last.op = op /\ last.phase = "settle"

\* The parsed body of the answer says the message was sent
SaysSent == last.data.kind = "result" /\ last.data.status = "sent"

\* C19 as stated: testEmailConfig shows 'Test Successful' exactly when the body
\* has status 'sent', whatever the HTTP status, and 'Test Failed' or 'Test
\* Error' otherwise; sendTestSMS shows 'Test Result' exactly when the HTTP
\* status is 2xx and 'Error' otherwise; one alert per completed request.
C19_ByHttpStatus ==
    /\ Settles("testEmailConfig") =>
          /\ Len(last.alerts) = 1
          /\ last.alerts[1] = "Test Successful" <=> SaysSent
          /\ last.alerts[1] \in {"Test Successful", "Test Failed", "Test Error"}
    /\ Settles("sendTestSMS") =>
          /\ Len(last.alerts) = 1
          /\ last.alerts[1] = "Test Result" <=> IsOk(last.outcome)
          /\ last.alerts[1] \in {"Test Result", "Error"}

\* C19, amended: as stated for testEmailConfig; sendTestSMS shows 'Test Result'
\* exactly when the HTTP status is 2xx and the body parses, whatever status the
\* body carries, and 'Error' otherwise, a 2xx answer with an unparsable body
\* included; one alert per completed request.
C19_ByParsedAnswer ==
    /\ Settles("testEmailConfig") =>
          /\ Len(last.alerts) = 1
          /\ last.alerts[1] = "Test Successful" <=> SaysSent
          /\ last.alerts[1] = "Test Error" <=> ~Parsable(last.outcome)
          /\ last.alerts[1] \in {"Test Successful", "Test Failed", "Test Error"}
    /\ Settles("sendTestSMS") =>
          /\ Len(last.alerts) = 1
          /\ last.alerts[1] = "Test Result" <=> IsOk(last.outcome) /\ Parsable(last.outcome)
          /\ last.alerts[1] \in {"Test Result", "Error"}

\* A 2xx answer to the test SMS did not parse and the alert is 'Error'
C19_Witness ==
    /\ Settles("sendTestSMS")
    /\ last.outcome = "ok_garbled"
    /\ last.alerts = <<"Error">>
    /\ ~testScreen.loading

\* C20: the modal closes and the list is reloaded only after a successful save.
\* The continuation of saveFilter closes the modal and calls loadFilters exactly
\* when the answer is 2xx, leaving the rest of the screen's state as it was; a
\* press that fails validation, a rejection and a non-2xx answer leave the
\* screen's state (the modal, formData, editingFilter, the list) unchanged,
\* send nothing and show an alert.
C20_ClosesOnSuccessOnly ==
    [][/\ last'.op = "saveFilter" /\ last'.phase = "settle" /\ IsOk(last'.outcome) =>
             /\ filtersScreen' = [filtersScreen EXCEPT !.modalVisible = FALSE]
             /\ last'.sent = <<LoadFiltersRequest>>
             /\ net'[Len(net')] = LoadFiltersCall
             /\ Len(net') = Len(net)
             /\ last'.alerts = <<"Success">>
       /\ last'.op = "saveFilter" /\ last'.phase = "settle" /\ ~IsOk(last'.outcome) =>
             /\ filtersScreen' = filtersScreen
             /\ last'.sent = <<>>
             /\ Len(net') = Len(net) - 1
             /\ last'.alerts = <<"Error">>
       /\ last'.op = "saveFilter" /\ last'.phase = "call" /\ last'.outcome = "invalid" =>
             /\ filtersScreen' = filtersScreen
             /\ filtersScreen'.modalVisible
             /\ net' = net
             /\ last'.alerts = <<"Validation Error">>]_vars

\* A save was answered with a non-2xx status: the modal is still open with the
\* form as typed and the error alert is up
C20_Witness ==
    /\ Settles("saveFilter")
    /\ last.outcome = "err"
    /\ last.alerts = <<"Error">>
    /\ filtersScreen.modalVisible
    /\ filtersScreen.formData.name = "a"
    /\ ~InFlight("loadFilters")

\* C21: saveFilter always sends enabled = true, on a POST and on a PUT alike:
\* the update of a filter that is disabled in the list sends a PUT that enables
\* it, whatever of name, type and value was edited.
C21_AlwaysEnabled ==
    Sent("saveFilter") =>
        /\ Len(last.sent) = 1
        /\ last.sent[1].method \in {"POST", "PUT"}
        /\ last.sent[1].method = "PUT" <=> filtersScreen.editingFilter # NoFilter
        /\ last.sent[1].body.enabled

\* The update of a disabled filter was sent, with enabled = true
C21_Witness ==
    /\ Sent("saveFilter")
    /\ last.sent[1].method = "PUT"
    /\ filtersScreen.editingFilter \in Cards
    /\ ~filtersScreen.editingFilter.enabled
    /\ last.sent[1].id = filtersScreen.editingFilter.id
    /\ last.sent[1].body.enabled

\* The toggle calls that are awaited for the filter with this id
TogglesOf(id) ==
    {i \in DOMAIN net : net[i].op = "toggleFilter" /\ net[i].reqs[1].id = id}

\* C22: toggleFilter negates the flag of the filter as the list shows it, not
\* the backend's.  A press sends the negation of the card's flag; the list, and
\* with it the flag a press negates, changes only when a loadFilters has
\* completed with a body that parses (or the screen is left); so two presses
\* with no such load in between send the same value.
C22_NegatesRendered ==
    [][/\ Sent("toggleFilter")' =>
             /\ \E f \in Cards :
                   /\ last'.sent = <<Request("PUT", "/api/filters/:id", f.id,
                                             [enabled |-> ~f.enabled])>>
                   /\ \A i \in TogglesOf(f.id) :
                         net[i].reqs[1].body.enabled = ~f.enabled
                             => last'.sent = net[i].reqs
             /\ filtersScreen'.filters = filtersScreen.filters
       /\ filtersScreen'.filters # filtersScreen.filters =>
             \/ /\ last'.op = "loadFilters"
                /\ last'.phase = "settle"
                /\ Parsable(last'.outcome)
             \/ filtersScreen' = FiltersInit]_vars

\* The toggle of a disabled filter was pressed twice before the list was
\* loaded again: both requests enable it, the backend has carried out both,
\* and the filter is enabled
C22_Witness ==
    \E i, j \in DOMAIN net :
        /\ i < j
        /\ net[i].op = "toggleFilter"
        /\ net[j].op = "toggleFilter"
        /\ net[i].reqs = net[j].reqs
        /\ net[i].reqs[1].body.enabled
        /\ net[i].resp[1].st = "done"
        /\ net[j].resp[1].st = "done"
        /\ \E f \in Cards : f.id = net[i].reqs[1].id /\ ~f.enabled
        /\ \E g \in srvFilters : g.id = net[i].reqs[1].id /\ g.enabled

====
